---- MODULE Spec2Model ----
(***************************************************************************)
(* Model of the digit-only Morse decoder of src/morse_decoder_optimized.py *)
(* (class MorseCodeDecoderGUI): the signal tracker, the symbol classifier  *)
(* and the sequence assembler.                                             *)
(*                                                                         *)
(* Time is counted in units of 0.01 s, so the decoder's dot_duration 0.02, *)
(* dash_duration 0.05, letter_gap 0.8 and word_gap 0.4 are 2, 5, 80 and    *)
(* 40.  Energy is counted in units of 0.001, so the threshold 0.003 is 3.  *)
(* A code is a sequence of the one-character strings "." and "-"; a digit  *)
(* sequence is a sequence of the one-character strings "0" .. "9".         *)
(*                                                                         *)
(* Of an archived record the model keeps 'sequence', 'length' and 'forced' *)
(* and leaves out the two time stamps.  The counters total_signals and     *)
(* total_letters, last_digit_time, signal_history and energy_history are   *)
(* written by the decoder and read only by the display; they are left out. *)
(* The band-pass filter and the RMS are not modelled here: a chunk is its  *)
(* energy.                                                                 *)
(***************************************************************************)
EXTENDS Integers, Sequences, FiniteSets, TLC

\* ------------------------------------------------------------- bounds
\* Spec follows time.time() up to MaxTime and a code up to MaxCodeLen symbols,
\* and draws the energy of a chunk from 0 .. MaxEnergy; SpecKeyed keys at most
\* MaxKeyed codes.
MaxTime == 44
MaxCodeLen == 2
MaxEnergy == 4
\* Spec and SpecControl count at most MaxSignals signals.
MaxSignals == 2
MaxSilence == 100
MaxSilenceKeyed == 3
MaxKeyed == 3
\* SpecControl follows time.time() up to MaxControlTime and the threshold up
\* to MaxThreshold.
MaxControlTime == 6
MaxThreshold == 11
\* SpecReset keys at most MaxResetKeyed codes.
MaxResetKeyed == 6
\* SpecPermutations and SpecConfidence take passwords of the digits 0 .. MaxDigit.
MaxDigit == 3
\* SpecRanker starts from a history of at most MaxHistory archived sequences
\* and calls analyze_recent_sequences with max_sequences up to MaxWindow.
MaxHistory == 3
MaxWindow == 2
\* SpecFilter gives the filter chunks of MaxChunk samples out of
\* -MaxSample .. MaxSample.
\* SpecStream starts at most MaxStarts worker threads and keys at most
\* MaxStreamKeyed codes.
MaxStarts == 2
MaxStreamKeyed == 3
MaxChunk == 2
MaxSample == 1

\* ------------------------------------------------------------- parameters
expected_digits_from_two == {2, 3, 4}
expected_digits_four_only == {4}
expected_digits == {3, 4}

\* The table __init__ stores in self.morse_dict.
MorseTable_one_two_exchanged ==
    (<<"-", "-", "-", "-", "-">> :> "0") @@ (<<".", "-", "-", "-", "-">> :> "2") @@
    (<<".", ".", "-", "-", "-">> :> "1") @@ (<<".", ".", ".", "-", "-">> :> "3") @@
    (<<".", ".", ".", ".", "-">> :> "4") @@ (<<".", ".", ".", ".", ".">> :> "5") @@
    (<<"-", ".", ".", ".", ".">> :> "6") @@ (<<"-", "-", ".", ".", ".">> :> "7") @@
    (<<"-", "-", "-", ".", ".">> :> "8") @@ (<<"-", "-", "-", "-", ".">> :> "9")

MorseTable ==
    (<<"-", "-", "-", "-", "-">> :> "0") @@ (<<".", "-", "-", "-", "-">> :> "1") @@
    (<<".", ".", "-", "-", "-">> :> "2") @@ (<<".", ".", ".", "-", "-">> :> "3") @@
    (<<".", ".", ".", ".", "-">> :> "4") @@ (<<".", ".", ".", ".", ".">> :> "5") @@
    (<<"-", ".", ".", ".", ".">> :> "6") @@ (<<"-", "-", ".", ".", ".">> :> "7") @@
    (<<"-", "-", "-", ".", ".">> :> "8") @@ (<<"-", "-", "-", "-", ".">> :> "9")

Max(S) == CHOOSE m \in S : \A x \in S : x <= m

\* ------------------------------------------------------------- state
VARIABLES
    clock,                    \* the last value time.time() returned
    threshold,
    dot_duration,
    dash_duration,
    letter_gap,
    word_gap,
    morse_dict,
    is_signal_on,
    signal_start_time,
    last_signal_time,
    current_code,
    current_number_sequence,
    number_sequences,
    classified,               \* the durations the last chunk gave process_signal_duration
    silence,                  \* the durations the last chunk gave process_silence_duration
    decoded,                  \* the codes the last chunk gave decode_current_code
    keyer,                    \* the sender: the codes it may key, how many, and its gaps
    keyed,                    \* the codes the sender has begun, in order
    keying,                   \* the symbols of the current code still to be keyed
    rested,                   \* the sender has paused since its last code
    control,                  \* the call the keyboard thread made last, <<>> after a chunk
    window,                   \* max_sequences of the last analyze_recent_sequences
    candidates,               \* what the last analyze_recent_sequences returned
    permutations,             \* the last generate_password_permutations: argument, result
    scored,                   \* the last calculate_confidence: arguments, result
    total_signals,
    is_streaming,             \* AudioStream.is_streaming
    thread,                   \* AudioStream.thread: <<>> for None, else <<the thread>>
    workers,                  \* where each thread made of _stream_worker is
    caller,                   \* where the thread that calls start() and stop() is
    audio,                    \* the chunks of samples not yet given to the filter
    filtered,                 \* what apply_bandpass_filter returned, call by call
    decode_at,                \* the statement of decode_current_code the audio thread is at
    decode_locals,            \* the locals of the audio thread there: digit, seq_length
    reset_at                  \* the statement of reset_text the keyboard thread is at

params == <<dot_duration, dash_duration, letter_gap, word_gap>>

ranker == <<window, candidates, permutations, scored>>

stream == <<is_streaming, thread, workers, caller>>

filtering == <<audio, filtered>>

stepping == <<decode_at, decode_locals, reset_at>>

threads == <<stream, filtering, stepping>>

vars == <<clock, threshold, params, morse_dict, is_signal_on, signal_start_time,
          last_signal_time, current_code, current_number_sequence, number_sequences,
          classified, silence, decoded, keyer, keyed, keying, rested, control, ranker,
          total_signals, threads>>

\* ------------------------------------------------------------- inputs
\* The energy of a chunk, and the advance of time.time() between two chunks:
\* none, a dot, a dash, and a silence just past word_gap.
Energies == 0 .. MaxEnergy
Deltas == {0, dot_duration, dash_duration, word_gap + 1}

\* A code of five symbols that is no digit.
NoDigit == <<".", "-", ".", "-", ".">>

\* ------------------------------------------------------------- the decoder
\* The symbol classifier: the code after a signal of the given duration.
process_signal_duration_inclusive(code, duration) ==
    IF duration <= dot_duration THEN code
    ELSE IF duration <= dash_duration THEN Append(code, ".")
    ELSE Append(code, "-")

process_signal_duration(code, duration) ==
    IF duration < dot_duration THEN code
    ELSE IF duration < dash_duration THEN Append(code, ".")
    ELSE Append(code, "-")

\* An archived record; a record check_complete_sequence makes has no 'forced'
\* key, which every reader takes as False (seq.get('forced', False)).
sequence_info(seq, length, isForced) ==
    [sequence |-> seq, length |-> length, forced |-> isForced]

\* The assembler's state: the code buffer, the sequence buffer, the history, and
\* the codes decode_current_code was called on.
Asm(code, seq, hist, calls) ==
    [code |-> code, seq |-> seq, hist |-> hist, decoded |-> calls]

check_complete_sequence_keeping(a) ==
    LET seq_length == Len(a.seq) IN
    IF seq_length \in expected_digits
      THEN Asm(a.code, a.seq,
               Append(a.hist, sequence_info(a.seq, seq_length, FALSE)), a.decoded)
    ELSE IF seq_length > Max(expected_digits)
      THEN Asm(a.code, <<>>, a.hist, a.decoded)
    ELSE a

check_complete_sequence_latest_only(a) ==
    LET seq_length == Len(a.seq) IN
    IF seq_length \in expected_digits
      THEN Asm(a.code, <<>>, <<sequence_info(a.seq, seq_length, FALSE)>>, a.decoded)
    ELSE IF seq_length > Max(expected_digits)
      THEN Asm(a.code, <<>>, a.hist, a.decoded)
    ELSE a

check_complete_sequence(a) ==
    LET seq_length == Len(a.seq) IN
    IF seq_length \in expected_digits
      THEN Asm(a.code, <<>>,
               Append(a.hist, sequence_info(a.seq, seq_length, FALSE)), a.decoded)
    ELSE IF seq_length > Max(expected_digits)
      THEN Asm(a.code, <<>>, a.hist, a.decoded)
    ELSE a

decode_current_code_mapped_only(a) ==
    IF a.code \in DOMAIN morse_dict
      THEN LET b == check_complete_sequence(
                        Asm(a.code, Append(a.seq, morse_dict[a.code]), a.hist, a.decoded))
           IN Asm(<<>>, b.seq, b.hist, Append(a.decoded, a.code))
      ELSE Asm(a.code, a.seq, a.hist, Append(a.decoded, a.code))

decode_current_code(a) ==
    LET b == IF a.code \in DOMAIN morse_dict
               THEN check_complete_sequence(
                        Asm(a.code, Append(a.seq, morse_dict[a.code]), a.hist, a.decoded))
               ELSE a
    IN Asm(<<>>, b.seq, b.hist, Append(a.decoded, a.code))

force_complete_sequence(a) ==
    IF a.seq # <<>>
      THEN Asm(a.code, <<>>,
               Append(a.hist, sequence_info(a.seq, Len(a.seq), TRUE)), a.decoded)
      ELSE a

process_silence_duration_letter_gap_only(a, duration) ==
    IF duration > word_gap
      THEN IF a.seq # <<>> /\ Len(a.seq) >= 3
             THEN force_complete_sequence(a)
             ELSE a
    ELSE IF duration > letter_gap
      THEN IF a.code # <<>> THEN decode_current_code(a) ELSE a
    ELSE a

process_silence_duration(a, duration) ==
    IF duration > word_gap
      THEN LET b == IF a.code # <<>> THEN decode_current_code(a) ELSE a
           IN IF b.seq # <<>> /\ Len(b.seq) >= 3
                THEN force_complete_sequence(b)
                ELSE b
    ELSE IF duration > letter_gap
      THEN IF a.code # <<>> THEN decode_current_code(a) ELSE a
    ELSE a

\* The test that sends a chunk to the gap logic: the signal is off after the
\* chunk's transition and a signal has ended before (last_signal_time > 0).
silence_checked_any(on, last) == ~on

silence_checked(on, last) == ~on /\ last > 0

\* The test of a chunk's energy against the threshold.
signal_detected_inclusive(energy) == energy >= threshold

signal_detected(energy) == energy > threshold

\* One call of process_audio_chunk whose filtered chunk has the given energy
\* and whose time.time() returns current_time.
process_audio_chunk(energy, current_time) ==
    LET rising  == signal_detected(energy) /\ ~is_signal_on
        falling == ~signal_detected(energy) /\ is_signal_on
        on1     == IF rising THEN TRUE ELSE IF falling THEN FALSE ELSE is_signal_on
        signal_duration == current_time - signal_start_time
        code1   == IF falling
                     THEN process_signal_duration(current_code, signal_duration)
                     ELSE current_code
        last1   == IF falling THEN current_time ELSE last_signal_time
        gap     == silence_checked(on1, last1)
        silence_duration == current_time - last1
        a0      == Asm(code1, current_number_sequence, number_sequences, <<>>)
    IN  \E a1 \in {IF gap THEN process_silence_duration(a0, silence_duration) ELSE a0} :
        /\ clock' = current_time
        /\ is_signal_on' = on1
        /\ signal_start_time' = IF rising THEN current_time ELSE signal_start_time
        /\ last_signal_time' = last1
        /\ total_signals' = IF falling THEN total_signals + 1 ELSE total_signals
        /\ current_code' = a1.code
        /\ current_number_sequence' = a1.seq
        /\ number_sequences' = a1.hist
        /\ classified' = IF falling THEN <<signal_duration>> ELSE <<>>
        /\ silence' = IF gap THEN <<silence_duration>> ELSE <<>>
        /\ decoded' = a1.decoded
        /\ UNCHANGED <<threshold, params, morse_dict>>

\* ------------------------------------------------------------- specification
\* The decoder after __init__, at a time.time() of 1, with code in
\* current_code, seq in current_number_sequence and the sequences hist in
\* number_sequences.
DecoderIn(code, seq, hist) ==
    /\ clock = 1
    /\ threshold = 3
    /\ dot_duration = 2
    /\ dash_duration = 5
    /\ letter_gap = 80
    /\ word_gap = 40
    /\ morse_dict = MorseTable
    /\ is_signal_on = FALSE
    /\ signal_start_time = 0
    /\ last_signal_time = 0
    /\ total_signals = 0
    /\ current_code = code
    /\ current_number_sequence = seq
    /\ number_sequences = hist
    /\ classified = <<>>
    /\ silence = <<>>
    /\ decoded = <<>>
    /\ control = <<>>

DecoderWith(hist) == DecoderIn(<<>>, <<>>, hist)

\* The decoder after __init__: number_sequences is empty.
Decoder0 == DecoderWith(<<>>)

\* The locals of decode_current_code and check_complete_sequence before they
\* are assigned.
NoLocals == [digit |-> "", seq_length |-> 0]

\* No stream has been started, no chunk of samples is waiting for the filter,
\* and no thread is inside decode_current_code or reset_text.
Threads0 ==
    /\ is_streaming = FALSE
    /\ thread = <<>>
    /\ workers = <<>>
    /\ caller = "idle"
    /\ audio = <<>>
    /\ filtered = <<>>
    /\ decode_at = "out"
    /\ decode_locals = NoLocals
    /\ reset_at = "out"

\* No call of the ranker has been made.
Ranker0 ==
    /\ window = 0
    /\ candidates = <<>>
    /\ permutations = <<>>
    /\ scored = <<>>

Sender(codes, limit, gaps) == [codes |-> codes, limit |-> limit, gaps |-> gaps]

Sender0(s) ==
    /\ keyer = s
    /\ keyed = <<>>
    /\ keying = <<>>
    /\ rested = TRUE

\* Spec: the callback is given chunks of any energy at any of the time advances.
Init == Decoder0 /\ Ranker0 /\ Threads0 /\ Sender0(Sender({}, 0, {}))

AudioChunk ==
    \E energy \in Energies, d \in Deltas :
        /\ clock + d <= MaxTime
        /\ process_audio_chunk(energy, clock + d)
        /\ Len(current_code') <= MaxCodeLen
        /\ total_signals' <= MaxSignals
        /\ control' = <<>>
        /\ UNCHANGED <<keyer, keyed, keying, rested, ranker>>
        /\ UNCHANGED threads

Next == AudioChunk

Spec == Init /\ [][Next]_vars

\* SpecKeyed: the callback is given the chunks of a sender that keys codes, a
\* dot for dot_duration and a dash for dash_duration with dot_duration between
\* the symbols, and pauses after each code.
key_down ==
    /\ ~is_signal_on
    /\ \/ /\ keying # <<>>
          /\ UNCHANGED <<keyed, keying, rested>>
       \/ /\ keying = <<>> /\ rested /\ Len(keyed) < keyer.limit
          /\ \E c \in keyer.codes :
                /\ keyed' = Append(keyed, c)
                /\ keying' = c
          /\ rested' = FALSE
    /\ \E energy \in Energies :
          /\ energy > threshold
          /\ process_audio_chunk(energy, clock + dot_duration)
    /\ control' = <<>>
    /\ UNCHANGED <<keyer, ranker>>

key_up ==
    /\ is_signal_on /\ keying # <<>>
    /\ \E energy \in Energies :
          /\ energy <= threshold
          /\ process_audio_chunk(energy,
                clock + (IF Head(keying) = "." THEN dot_duration ELSE dash_duration))
    /\ keying' = Tail(keying)
    /\ control' = <<>>
    /\ UNCHANGED <<keyer, keyed, rested, ranker>>

pause ==
    /\ ~is_signal_on /\ keying = <<>> /\ ~rested
    /\ \E energy \in Energies, d \in keyer.gaps :
          /\ energy <= threshold
          /\ process_audio_chunk(energy, clock + d)
    /\ rested' = TRUE
    /\ control' = <<>>
    /\ UNCHANGED <<keyer, keyed, keying, ranker>>

KeyDown == key_down /\ UNCHANGED threads

KeyUp == key_up /\ UNCHANGED threads

Pause == pause /\ UNCHANGED threads

NextKeyed == KeyDown \/ KeyUp \/ Pause

InitKeyed ==
    /\ Decoder0
    /\ Ranker0
    /\ Threads0
    /\ Sender0(Sender(DOMAIN morse_dict \cup {NoDigit}, MaxKeyed,
                      {word_gap + 1, letter_gap + 1}))

SpecKeyed == InitKeyed /\ [][NextKeyed]_vars

\* SpecFour: the sender keys as many digits as the longest expected sequence
\* has, with a pause longer than both gaps after each.
InitFour ==
    /\ Decoder0
    /\ Ranker0
    /\ Threads0
    /\ Sender0(Sender(DOMAIN morse_dict, Max(expected_digits), {letter_gap + 1}))

SpecFour == InitFour /\ [][NextKeyed]_vars

\* SpecSilence: the sender keys codes, whole or cut short, and whenever it is
\* not keying the callback is given silent chunks, SilentSteps apart, until
\* the silence has lasted MaxSilence. The worker's loop delivers a chunk each
\* time round that frames were read, so silent chunks keep coming: WF_vars(Silent).
SilentSteps == {word_gap \div 2, word_gap}

silent ==
    /\ ~is_signal_on /\ keying = <<>>
    /\ \E energy \in Energies, d \in SilentSteps :
          /\ energy <= threshold
          /\ clock + d - last_signal_time <= MaxSilence
          /\ process_audio_chunk(energy, clock + d)
    /\ rested' = TRUE
    /\ control' = <<>>
    /\ UNCHANGED <<keyer, keyed, keying, ranker>>

Silent == silent /\ UNCHANGED threads

SilenceCodes == {<<".">>, <<".", "-", "-", "-", "-">>, NoDigit}

InitSilence ==
    /\ Decoder0
    /\ Ranker0
    /\ Threads0
    /\ Sender0(Sender(SilenceCodes, MaxSilenceKeyed, {}))

NextSilence == KeyDown \/ KeyUp \/ Silent

SpecSilence == InitSilence /\ [][NextSilence]_vars /\ WF_vars(Silent)

\* ------------------------------------------------------------- keyboard
\* adjust_threshold(delta), as the threshold it leaves.
adjust_threshold_nonnegative(th, delta) == IF th + delta >= 0 THEN th + delta ELSE th

adjust_threshold(th, delta) == IF th + delta > 0 THEN th + delta ELSE th

\* The arrow keys: up is adjust_threshold(0.001), down adjust_threshold(-0.001).
ArrowDeltas == {1, -1}

\* The keys 1 .. 9.
QuickKeys == 1 .. 9

decoding == <<is_signal_on, signal_start_time, last_signal_time, total_signals, current_code,
              current_number_sequence, number_sequences>>

observed == <<classified, silence, decoded>>

sender == <<keyer, keyed, keying, rested>>

AdjustThreshold ==
    \E delta \in ArrowDeltas :
        /\ threshold + delta <= MaxThreshold
        /\ threshold' = adjust_threshold(threshold, delta)
        /\ control' = <<"adjust", delta, threshold>>
        /\ UNCHANGED <<clock, params, morse_dict, decoding, observed, sender, ranker>>
        /\ UNCHANGED threads

QuickSet ==
    \E key \in QuickKeys :
        /\ threshold' = key
        /\ control' = <<"set", key, threshold>>
        /\ UNCHANGED <<clock, params, morse_dict, decoding, observed, sender, ranker>>
        /\ UNCHANGED threads

\* SpecControl: the keyboard thread adjusts and sets the threshold while the
\* callback is given chunks.
AudioChunkControl ==
    \E energy \in Energies, d \in Deltas :
        /\ clock + d <= MaxControlTime
        /\ process_audio_chunk(energy, clock + d)
        /\ Len(current_code') <= MaxCodeLen
        /\ total_signals' <= MaxSignals
        /\ control' = <<>>
        /\ UNCHANGED <<sender, ranker>>
        /\ UNCHANGED threads

NextControl == AudioChunkControl \/ AdjustThreshold \/ QuickSet

SpecControl == Init /\ [][NextControl]_vars

\* reset_text(), as the decoding state it leaves.
reset_text_keeping_history ==
    /\ current_number_sequence' = <<>>
    /\ current_code' = <<>>
    /\ UNCHANGED number_sequences

reset_text ==
    /\ current_number_sequence' = <<>>
    /\ current_code' = <<>>
    /\ number_sequences' = <<>>

ResetText_clearing_tracker ==
    /\ reset_text
    /\ control' = <<"reset">>
    /\ is_signal_on' = FALSE
    /\ total_signals' = 0
    /\ UNCHANGED <<clock, threshold, params, morse_dict, signal_start_time,
                   last_signal_time, observed, sender, ranker>>
    /\ UNCHANGED threads

ResetText ==
    /\ reset_text
    /\ control' = <<"reset">>
    /\ UNCHANGED <<clock, threshold, params, morse_dict, is_signal_on, signal_start_time,
                   last_signal_time, total_signals, observed, sender, ranker>>
    /\ UNCHANGED threads

\* SpecReset: the keyboard thread resets the decoder while the callback is
\* given the chunks of a sender that keys the digits ResetKeyed.
ResetKeyed == {"1", "2"}

InitReset ==
    /\ Decoder0
    /\ Ranker0
    /\ Threads0
    /\ Sender0(Sender({c \in DOMAIN morse_dict : morse_dict[c] \in ResetKeyed},
                      MaxResetKeyed, {word_gap + 1}))

NextReset == KeyDown \/ KeyUp \/ Pause \/ ResetText

SpecReset == InitReset /\ [][NextReset]_vars

\* ------------------------------------------------------------- ranker
\* A password is a str of digits, here the sequence of its characters.
DigitChars == <<"0", "1", "2", "3", "4", "5", "6", "7", "8", "9">>

int(c) == CHOOSE n \in 0 .. 9 : DigitChars[n + 1] = c

ord(c) == 48 + int(c)

Min(S) == CHOOSE x \in S : \A y \in S : x <= y

\* a < b of two str.
str_less(a, b) ==
    \/ \E i \in 1 .. Min({Len(a), Len(b)}) :
          /\ ord(a[i]) < ord(b[i])
          /\ \A j \in 1 .. i - 1 : a[j] = b[j]
    \/ /\ Len(a) < Len(b)
       /\ \A j \in 1 .. Len(a) : a[j] = b[j]

\* sorted(list(S)) of a set of str.
RECURSIVE sorted(_)
sorted(S) ==
    IF S = {} THEN <<>>
    ELSE LET least == CHOOSE x \in S : \A y \in S \ {x} : str_less(x, y)
         IN  <<least>> \o sorted(S \ {least})

\* itertools.permutations(password), joined to str and collected in a set.
perm_strings(password) ==
    LET n == Len(password)
        all_perms == {p \in [1 .. n -> 1 .. n] : \A i, j \in 1 .. n : p[i] = p[j] => i = j}
    IN  {[i \in 1 .. n |-> password[p[i]]] : p \in all_perms}

generate_password_permutations_of_digit_set(password) ==
    IF Len(password) < 3 \/ Len(password) > 4 THEN <<>>
    ELSE LET digits == {password[i] : i \in 1 .. Len(password)}
             n == Cardinality(digits)
         IN  sorted({q \in [1 .. n -> digits] : \A i, j \in 1 .. n : q[i] = q[j] => i = j})

generate_password_permutations(password) ==
    IF Len(password) < 3 \/ Len(password) > 4 THEN <<>>
    ELSE sorted(perm_strings(password))

is_sequential_ascending(sequence) ==
    \A i \in 1 .. Len(sequence) - 1 : ~(int(sequence[i]) >= int(sequence[i + 1]))

is_sequential_descending(sequence) ==
    \A i \in 1 .. Len(sequence) - 1 : ~(int(sequence[i]) <= int(sequence[i + 1]))

\* The loop of get_max_consecutive_digits from index i (counted from 1) on.
RECURSIVE consecutive_from(_, _, _, _)
consecutive_from(sequence, i, current_count, max_count) ==
    IF i > Len(sequence) THEN max_count
    ELSE IF sequence[i] = sequence[i - 1]
      THEN consecutive_from(sequence, i + 1, current_count + 1,
                            Max({max_count, current_count + 1}))
    ELSE consecutive_from(sequence, i + 1, 1, max_count)

get_max_consecutive_digits(sequence) ==
    IF Len(sequence) <= 1 THEN Len(sequence)
    ELSE consecutive_from(sequence, 2, 1, 1)

calculate_confidence_replacing(permutation, original) ==
    LET matched == IF permutation = original THEN 95 ELSE 50
        pattern == IF is_sequential_ascending(permutation) THEN 95
                   ELSE IF is_sequential_descending(permutation) THEN matched + 15
                   ELSE matched
        unique_digits == Cardinality({permutation[i] : i \in 1 .. Len(permutation)})
        repeats == IF unique_digits = Len(permutation) THEN pattern + 10
                   ELSE IF unique_digits = Len(permutation) - 1 THEN pattern + 5
                   ELSE pattern
        max_consecutive == get_max_consecutive_digits(permutation)
        confidence == IF max_consecutive > 2
                        THEN repeats - 10 * (max_consecutive - 2)
                      ELSE repeats
    IN  Min({Max({confidence, 0}), 100})

calculate_confidence(permutation, original) ==
    LET matched == IF permutation = original THEN 95 ELSE 50
        pattern == IF is_sequential_ascending(permutation) THEN matched + 20
                   ELSE IF is_sequential_descending(permutation) THEN matched + 15
                   ELSE matched
        unique_digits == Cardinality({permutation[i] : i \in 1 .. Len(permutation)})
        repeats == IF unique_digits = Len(permutation) THEN pattern + 10
                   ELSE IF unique_digits = Len(permutation) - 1 THEN pattern + 5
                   ELSE pattern
        max_consecutive == get_max_consecutive_digits(permutation)
        confidence == IF max_consecutive > 2
                        THEN repeats - 10 * (max_consecutive - 2)
                      ELSE repeats
    IN  Min({Max({confidence, 0}), 100})

\* The passwords of length n of the digits 0 .. MaxDigit.
Passwords(n) == [1 .. n -> {DigitChars[d + 1] : d \in 0 .. MaxDigit}]

\* SpecPermutations: generate_password_permutations is called once, on a
\* password one digit shorter than the expected lengths up to one digit longer.
InitPermutations ==
    /\ Decoder0
    /\ Threads0
    /\ Sender0(Sender({}, 0, {}))
    /\ window = 0
    /\ candidates = <<>>
    /\ scored = <<>>
    /\ \E n \in Min(expected_digits) - 1 .. Max(expected_digits) + 1 :
          \E password \in Passwords(n) : permutations = <<password>>

GeneratePasswordPermutations ==
    /\ Len(permutations) = 1
    /\ permutations' = Append(permutations, generate_password_permutations(permutations[1]))
    /\ control' = <<"permutations">>
    /\ UNCHANGED <<clock, threshold, params, morse_dict, decoding, observed, sender,
                   window, candidates, scored>>
    /\ UNCHANGED threads

SpecPermutations == InitPermutations /\ [][GeneratePasswordPermutations]_vars

\* SpecConfidence: calculate_confidence is called once, on a permutation
\* generate_password_permutations makes of a sequence of an expected length.
InitConfidence ==
    /\ Decoder0
    /\ Threads0
    /\ Sender0(Sender({}, 0, {}))
    /\ window = 0
    /\ candidates = <<>>
    /\ permutations = <<>>
    /\ \E n \in expected_digits :
          \E original \in Passwords(n) :
              \E permutation \in perm_strings(original) :
                  scored = <<permutation, original>>

CalculateConfidence ==
    /\ Len(scored) = 2
    /\ scored' = Append(scored, calculate_confidence(scored[1], scored[2]))
    /\ control' = <<"confidence">>
    /\ UNCHANGED <<clock, threshold, params, morse_dict, decoding, observed,
                   sender, window, candidates, permutations>>
    /\ UNCHANGED threads

SpecConfidence == InitConfidence /\ [][CalculateConfidence]_vars

\* list[start:] of Python, start negative counting from the end.
slice_from(list, start) ==
    LET first == IF start < 0 THEN Max({Len(list) + start, 0})
                 ELSE Min({start, Len(list)})
    IN  SubSeq(list, first + 1, Len(list))

\* list[:stop] of Python, stop not negative.
slice_to(list, stop) == SubSeq(list, 1, Min({stop, Len(list)}))

\* The candidates made of one archived sequence, in the order made.
candidates_of(seq_info) ==
    LET sequence == seq_info.sequence
        perms    == generate_password_permutations(sequence)
    IN  [k \in 1 .. Len(perms) |->
            [password |-> perms[k], original |-> sequence,
             confidence |-> calculate_confidence(perms[k], sequence),
             length |-> Len(perms[k])]]

\* all_candidates before it is sorted.
RECURSIVE all_candidates(_)
all_candidates(recent_sequences) ==
    IF recent_sequences = <<>> THEN <<>>
    ELSE candidates_of(Head(recent_sequences)) \o all_candidates(Tail(recent_sequences))

\* list.sort(key=confidence, reverse=True): equal keys keep their order.
RECURSIVE sort_reversing_equals(_)
sort_reversing_equals(list) ==
    IF list = <<>> THEN <<>>
    ELSE LET rest == sort_reversing_equals(SubSeq(list, 1, Len(list) - 1))
             x    == list[Len(list)]
             k    == Cardinality({i \in 1 .. Len(rest) : rest[i].confidence > x.confidence})
         IN  SubSeq(rest, 1, k) \o <<x>> \o SubSeq(rest, k + 1, Len(rest))

RECURSIVE sort_by_confidence(_)
sort_by_confidence(list) ==
    IF list = <<>> THEN <<>>
    ELSE LET rest == sort_by_confidence(SubSeq(list, 1, Len(list) - 1))
             x    == list[Len(list)]
             k    == Cardinality({i \in 1 .. Len(rest) : rest[i].confidence >= x.confidence})
         IN  SubSeq(rest, 1, k) \o <<x>> \o SubSeq(rest, k + 1, Len(rest))

ReturnedCandidates == 12
ExportWindow == 5
DisplayWindow == 3
DisplayedCandidates == 8

analyze_recent_sequences_unsorted(hist, max_sequences) ==
    IF Len(hist) = 0 THEN <<>>
    ELSE slice_to(all_candidates(slice_from(hist, -max_sequences)), ReturnedCandidates)

analyze_recent_sequences(hist, max_sequences) ==
    IF Len(hist) = 0 THEN <<>>
    ELSE slice_to(sort_by_confidence(all_candidates(slice_from(hist, -max_sequences))),
                  ReturnedCandidates)

\* The values of max_sequences: the small ones, and one window with as many
\* sequences as candidates are returned.
Windows == (0 .. MaxWindow) \cup {ReturnedCandidates}

AnalyzeRecentSequences ==
    \E max_sequences \in Windows :
        /\ window' = max_sequences
        /\ candidates' = analyze_recent_sequences(number_sequences, max_sequences)
        /\ control' = <<"analyze">>
        /\ UNCHANGED <<clock, threshold, params, morse_dict, decoding, observed, sender,
                       permutations, scored>>
        /\ UNCHANGED threads

\* save_result(), as the candidates it writes.
SaveResult ==
    /\ number_sequences # <<>>
    /\ window' = ExportWindow
    /\ candidates' = analyze_recent_sequences(number_sequences, ExportWindow)
    /\ control' = <<"save">>
    /\ UNCHANGED <<clock, threshold, params, morse_dict, decoding, observed, sender,
                   permutations, scored>>
    /\ UNCHANGED threads

\* create_decoding_panel(), as the candidates it shows (show_permutations on).
CreateDecodingPanel ==
    /\ number_sequences # <<>>
    /\ window' = DisplayWindow
    /\ candidates' = slice_to(analyze_recent_sequences(number_sequences, DisplayWindow),
                              DisplayedCandidates)
    /\ control' = <<"panel">>
    /\ UNCHANGED <<clock, threshold, params, morse_dict, decoding, observed, sender,
                   permutations, scored>>
    /\ UNCHANGED threads

\* SpecRanker: the ranker is called on a history of sequences the decoder
\* has archived, of which it reads the digits.
RankedSources ==
    {<<"1", "2", "3">>, <<"3", "2", "1">>, <<"1", "1", "2">>, <<"1", "1", "1">>}

RECURSIVE Histories(_)
Histories(n) ==
    IF n = 0 THEN {<<>>}
    ELSE LET shorter == Histories(n - 1) IN
         shorter \cup {Append(h, sequence_info(sequence, Len(sequence), FALSE)) :
                          h \in {g \in shorter : Len(g) = n - 1},
                          sequence \in RankedSources}

\* A history of as many sequences as candidates are returned.
LongHistory ==
    [i \in 1 .. ReturnedCandidates |->
        sequence_info(IF i % 2 = 1 THEN <<"1", "2", "3">> ELSE <<"1", "1", "1">>,
                      Min(expected_digits), FALSE)]

InitRanker ==
    /\ \E hist \in Histories(MaxHistory) \cup {LongHistory} : DecoderWith(hist)
    /\ Ranker0
    /\ Threads0
    /\ Sender0(Sender({}, 0, {}))

NextRanker == AnalyzeRecentSequences \/ SaveResult \/ CreateDecodingPanel

SpecRanker == InitRanker /\ [][NextRanker]_vars

\* ------------------------------------------------------------- stream
\* AudioStream.start(), called by the thread that controls the stream.
Start_unguarded ==
    /\ caller = "idle"
    /\ Len(workers) < MaxStarts
    /\ is_streaming' = TRUE
    /\ thread' = <<Len(workers) + 1>>
    /\ workers' = Append(workers, "test")
    /\ control' = <<"start">>
    /\ UNCHANGED <<clock, threshold, params, morse_dict, decoding, observed, sender, ranker,
                   caller, filtering, stepping>>

Start ==
    /\ caller = "idle"
    /\ IF is_streaming
         THEN UNCHANGED <<is_streaming, thread, workers>>
         ELSE /\ Len(workers) < MaxStarts
              /\ is_streaming' = TRUE
              /\ thread' = <<Len(workers) + 1>>
              /\ workers' = Append(workers, "test")
    /\ control' = <<"start">>
    /\ UNCHANGED <<clock, threshold, params, morse_dict, decoding, observed, sender, ranker,
                   caller, filtering, stepping>>

\* AudioStream.stop() up to thread.join(), or to its end when thread is None.
Stop ==
    /\ caller = "idle"
    /\ is_streaming' = FALSE
    /\ caller' = IF thread # <<>> THEN "joining" ELSE "idle"
    /\ control' = <<"stop">>
    /\ UNCHANGED <<clock, threshold, params, morse_dict, decoding, observed, sender, ranker,
                   thread, workers, filtering, stepping>>

\* thread.join() returns once the thread has ended; stop() then ends.
Joined_at_once ==
    /\ caller = "joining"
    /\ thread' = <<>>
    /\ caller' = "idle"
    /\ control' = <<"stopped">>
    /\ UNCHANGED <<clock, threshold, params, morse_dict, decoding, observed, sender, ranker,
                   is_streaming, workers, filtering, stepping>>

Joined ==
    /\ caller = "joining"
    /\ workers[thread[1]] = "done"
    /\ thread' = <<>>
    /\ caller' = "idle"
    /\ control' = <<"stopped">>
    /\ UNCHANGED <<clock, threshold, params, morse_dict, decoding, observed, sender, ranker,
                   is_streaming, workers, filtering, stepping>>

\* The capture has frames to read: the sender has not keyed all its codes.
frames_waiting == keying # <<>> \/ ~rested \/ Len(keyed) < keyer.limit

\* _stream_worker of thread t: the test of the while loop.
WorkerTest_ignoring_flag(t) ==
    /\ workers[t] = "test"
    /\ workers' = [workers EXCEPT ![t] = "read"]
    /\ control' = <<"worker">>
    /\ UNCHANGED <<clock, threshold, params, morse_dict, decoding, observed, sender, ranker,
                   is_streaming, thread, caller, filtering, stepping>>

WorkerTest(t) ==
    /\ workers[t] = "test"
    /\ workers' = [workers EXCEPT ![t] = IF is_streaming THEN "read" ELSE "done"]
    /\ control' = <<"worker">>
    /\ UNCHANGED <<clock, threshold, params, morse_dict, decoding, observed, sender, ranker,
                   is_streaming, thread, caller, filtering, stepping>>

\* read_audio returns frames, and the callback is entered, or it returns None.
WorkerRead(t) ==
    /\ workers[t] = "read"
    /\ \/ frames_waiting /\ workers' = [workers EXCEPT ![t] = "callback"]
       \/ workers' = [workers EXCEPT ![t] = "test"]
    /\ control' = <<"worker">>
    /\ UNCHANGED <<clock, threshold, params, morse_dict, decoding, observed, sender, ranker,
                   is_streaming, thread, caller, filtering, stepping>>

\* The callback processes the chunk and returns; the loop sleeps and goes on.
WorkerCallback(t) ==
    /\ workers[t] = "callback"
    /\ key_down \/ key_up \/ pause
    /\ workers' = [workers EXCEPT ![t] = "test"]
    /\ UNCHANGED <<is_streaming, thread, caller, filtering, stepping>>

Worker == \E t \in DOMAIN workers : WorkerTest(t) \/ WorkerRead(t) \/ WorkerCallback(t)

\* SpecStream: one thread starts and stops the stream, whose capture gives
\* the chunks of a sender that keys the digits StreamKeyed.
StreamKeyed == {"1", "5"}

InitStream ==
    /\ Decoder0
    /\ Ranker0
    /\ Threads0
    /\ Sender0(Sender({c \in DOMAIN morse_dict : morse_dict[c] \in StreamKeyed},
                      MaxStreamKeyed, {word_gap + 1}))

NextStream == Start \/ Stop \/ Joined \/ Worker

SpecStream == InitStream /\ [][NextStream]_vars

\* SpecStreamFair: the threads are scheduled fairly and read_audio returns.
SpecStreamFair == SpecStream /\ WF_vars(Worker) /\ WF_vars(Joined)

\* ------------------------------------------------------------- threads
\* decode_current_code and the check_complete_sequence it calls, one statement
\* of the audio thread at a time: the statement at at, on the code buffer
\* code, the sequence buffer seq, the history hist and the locals loc.
decode_statement(at, code, seq, hist, loc) ==
    LET on == [at |-> at, code |-> code, seq |-> seq, hist |-> hist, loc |-> loc] IN
    CASE at = "test" ->
           [on EXCEPT !.at = IF code \in DOMAIN morse_dict THEN "lookup" ELSE "clear_code"]
      [] at = "lookup" ->
           IF code \in DOMAIN morse_dict
             THEN [on EXCEPT !.at = "add", !.loc.digit = morse_dict[code]]
           ELSE [on EXCEPT !.at = "raised"]
      [] at = "add" ->
           [on EXCEPT !.at = "len", !.seq = Append(seq, loc.digit)]
      [] at = "len" ->
           [on EXCEPT !.at = "branch", !.loc.seq_length = Len(seq)]
      [] at = "branch" ->
           [on EXCEPT !.at = IF loc.seq_length \in expected_digits THEN "append"
                             ELSE IF loc.seq_length > Max(expected_digits) THEN "discard"
                             ELSE "clear_code"]
      [] at = "append" ->
           [on EXCEPT !.at = "archived",
                      !.hist = Append(hist, sequence_info(seq, loc.seq_length, FALSE))]
      [] at \in {"archived", "discard"} ->
           [on EXCEPT !.at = "clear_code", !.seq = <<>>]
      [] at = "clear_code" ->
           [on EXCEPT !.at = "out", !.code = <<>>, !.loc = NoLocals]

DecodeStatement ==
    /\ decode_at \notin {"out", "raised"}
    /\ \E to \in {decode_statement(decode_at, current_code, current_number_sequence,
                                    number_sequences, decode_locals)} :
          /\ decode_at' = to.at
          /\ current_code' = to.code
          /\ current_number_sequence' = to.seq
          /\ number_sequences' = to.hist
          /\ decode_locals' = to.loc
    /\ control' = <<>>
    /\ UNCHANGED <<clock, threshold, params, morse_dict, is_signal_on, signal_start_time,
                   last_signal_time, total_signals, observed, sender, ranker, stream,
                   filtering, reset_at>>

\* reset_text, one statement of the keyboard thread at a time; the statements
\* on total_letters, signal_history and password_candidates are passed over.
ResetStatement ==
    /\ \/ /\ reset_at = "out"
          /\ reset_at' = "sequence"
          /\ UNCHANGED <<current_number_sequence, current_code, number_sequences>>
       \/ /\ reset_at = "sequence"
          /\ current_number_sequence' = <<>>
          /\ reset_at' = "code"
          /\ UNCHANGED <<current_code, number_sequences>>
       \/ /\ reset_at = "code"
          /\ current_code' = <<>>
          /\ reset_at' = "history"
          /\ UNCHANGED <<current_number_sequence, number_sequences>>
       \/ /\ reset_at = "history"
          /\ number_sequences' = <<>>
          /\ reset_at' = "out"
          /\ UNCHANGED <<current_number_sequence, current_code>>
    /\ control' = <<"reset">>
    /\ UNCHANGED <<clock, threshold, params, morse_dict, is_signal_on, signal_start_time,
                   last_signal_time, total_signals, observed, sender, ranker, stream,
                   filtering, decode_at, decode_locals>>

\* SpecThreads: the audio thread enters decode_current_code, after a silence
\* past the gap, with a code in the code buffer and at most two digits in the
\* sequence buffer, while the keyboard thread calls reset_text.
ThreadsKeyed == {"1", "2"}

InitThreads ==
    /\ \E code \in {c \in DOMAIN MorseTable : MorseTable[c] \in ThreadsKeyed} \cup {NoDigit},
          n \in 0 .. Min(expected_digits) - 1 :
          \E seq \in [1 .. n -> ThreadsKeyed] : DecoderIn(code, seq, <<>>)
    /\ Ranker0
    /\ Sender0(Sender({}, 0, {}))
    /\ is_streaming = FALSE
    /\ thread = <<>>
    /\ workers = <<>>
    /\ caller = "idle"
    /\ audio = <<>>
    /\ filtered = <<>>
    /\ decode_at = "test"
    /\ decode_locals = NoLocals
    /\ reset_at = "out"

NextThreads == DecodeStatement \/ ResetStatement

SpecThreads == InitThreads /\ [][NextThreads]_vars

\* ------------------------------------------------------------- filter
\* self.b, self.a: signal.butter gives a band-pass numerator with zeros at
\* z = 1 and z = -1 and a denominator with a[0] = 1; the coefficients here are
\* those of such a filter of order 1 in integers.
filter_b == <<1, 0, -1>>
filter_a == <<1, -1, 1>>

\* The sum of f[k] over the set K of integers.
RECURSIVE Sum(_, _)
Sum(f, K) ==
    IF K = {} THEN 0
    ELSE LET k == CHOOSE j \in K : TRUE IN f[k] + Sum(f, K \ {k})

\* signal.lfilter(b, a, x) without zi: the filter starts at rest,
\* y[n] = b[0] x[n] + .. + b[M] x[n-M] - a[1] y[n-1] - .. - a[N] y[n-N].
RECURSIVE lfilter_from(_, _, _, _)
lfilter_from(b, a, x, y) ==
    IF Len(y) = Len(x) THEN y
    ELSE LET n  == Len(y) + 1
             fb == [k \in 1 .. Len(b) |-> IF n - (k - 1) >= 1 THEN b[k] * x[n - (k - 1)] ELSE 0]
             fa == [k \in 2 .. Len(a) |-> IF n - (k - 1) >= 1 THEN a[k] * y[n - (k - 1)] ELSE 0]
         IN  lfilter_from(b, a, x,
                          Append(y, Sum(fb, 1 .. Len(b)) - Sum(fa, 2 .. Len(a))))

lfilter(b, a, x) == lfilter_from(b, a, x, <<>>)

apply_bandpass_filter(data) == lfilter(filter_b, filter_a, data)

\* SpecFilter: apply_bandpass_filter is called on one chunk after the other.
Samples == -MaxSample .. MaxSample

InitFilter ==
    /\ Decoder0
    /\ Ranker0
    /\ Sender0(Sender({}, 0, {}))
    /\ is_streaming = FALSE
    /\ thread = <<>>
    /\ workers = <<>>
    /\ caller = "idle"
    /\ audio \in [1 .. 2 -> [1 .. MaxChunk -> Samples]]
    /\ filtered = <<>>
    /\ decode_at = "out"
    /\ decode_locals = NoLocals
    /\ reset_at = "out"

ApplyBandpassFilter ==
    /\ Len(filtered) < Len(audio)
    /\ filtered' = Append(filtered, apply_bandpass_filter(audio[Len(filtered) + 1]))
    /\ control' = <<"filter">>
    /\ UNCHANGED <<clock, threshold, params, morse_dict, decoding, observed, sender, ranker,
                   stream, audio, stepping>>

SpecFilter == InitFilter /\ [][ApplyBandpassFilter]_vars

\* ------------------------------------------------------------- properties
Digits == {"0", "1", "2", "3", "4", "5", "6", "7", "8", "9"}
One == <<".", "-", "-", "-", "-">>

\* The digits of the codes of cs that are digits, in order.
RECURSIVE DigitsKeyed(_)
DigitsKeyed(cs) ==
    IF cs = <<>> THEN <<>>
    ELSE (IF Head(cs) \in DOMAIN morse_dict THEN <<morse_dict[Head(cs)]>> ELSE <<>>)
         \o DigitsKeyed(Tail(cs))

\* The digits of the records of h, in order.
RECURSIVE DigitsArchived(_)
DigitsArchived(h) ==
    IF h = <<>> THEN <<>> ELSE Head(h).sequence \o DigitsArchived(Tail(h))

\* C1: a chunk that ends a signal classifies its duration d: d < dot_duration
\* appends no symbol to the code buffer, dot_duration <= d < dash_duration
\* appends exactly one ".", and d >= dash_duration appends exactly one "-"
\* (so d = dot_duration is a dot and d = dash_duration is a dash).
C1_SymbolClassification ==
    [][classified' # <<>> =>
         LET d == classified'[1] IN
         /\ dot_duration < dash_duration
         /\ (d < dot_duration) => (current_code' = current_code)
         /\ (dot_duration <= d /\ d < dash_duration)
               => (current_code' = Append(current_code, "."))
         /\ (d >= dash_duration) => (current_code' = Append(current_code, "-"))]_vars

\* A signal of exactly dot_duration and then one of exactly dash_duration
\* have been classified.
C1_Witness ==
    /\ classified = <<dash_duration>>
    /\ current_code = <<".", "-">>
    /\ clock = 1 + dot_duration + dash_duration

\* C2: a chunk that decodes the code buffer leaves it empty; a code that is a
\* key of morse_dict appends exactly its digit to the sequence buffer (which
\* the completion policy may archive at once), any other code changes neither
\* the sequence buffer nor the history.  Decoding goes on after a discarded
\* code: once the sender has paused, the archived and the buffered digits are
\* the digits of all the valid codes keyed so far, in order.
C2_DecodeStep ==
    decoded' # <<>> =>
        LET code == current_code
            seq  == current_number_sequence
            hist == number_sequences
        IN  /\ decoded' = <<code>>
            /\ current_code' = <<>>
            /\ IF code \in DOMAIN morse_dict
                 THEN LET s == Append(seq, morse_dict[code]) IN
                      \/ /\ current_number_sequence' = s
                         /\ number_sequences' = hist
                      \/ /\ current_number_sequence' = <<>>
                         /\ Len(number_sequences') = Len(hist) + 1
                         /\ SubSeq(number_sequences', 1, Len(hist)) = hist
                         /\ number_sequences'[Len(hist) + 1].sequence = s
                 ELSE /\ current_number_sequence' = seq
                      /\ number_sequences' = hist

C2_DecodeClearsBuffer ==
    /\ [][C2_DecodeStep]_vars
    /\ []((rested /\ keying = <<>>) =>
            DigitsArchived(number_sequences) \o current_number_sequence
              = DigitsKeyed(keyed))

\* A digit was decoded, then a code that is no digit was discarded without
\* touching the sequence buffer, then another digit was decoded.
C2_Witness ==
    /\ keyed = <<One, NoDigit, One>>
    /\ rested
    /\ decoded = <<One>>
    /\ current_code = <<>>
    /\ current_number_sequence = <<"1", "1">>
    /\ number_sequences = <<>>

\* C3: from the initial state, three codes ".----" each followed by a pause
\* longer than the gap leave exactly one archived record, of the digits "111",
\* of length 3 and not forced, and an empty sequence buffer.
C3_ThreeOnesArchived ==
    (keyed = <<One, One, One>> /\ keying = <<>> /\ rested) =>
        /\ number_sequences =
             << [sequence |-> <<"1", "1", "1">>, length |-> 3, forced |-> FALSE] >>
        /\ current_number_sequence = <<>>

C3_Witness ==
    /\ keyed = <<One, One, One>> /\ keying = <<>> /\ rested
    /\ Len(number_sequences) = 1
    /\ clock > 3 * letter_gap

\* C4: after four digit codes, each followed by a pause longer than both
\* gaps, the history holds a record of length 4 with the four digits in order.
C4_FourDigitsArchived ==
    (Len(keyed) = 4 /\ keying = <<>> /\ rested) =>
        \E i \in 1 .. Len(number_sequences) :
            /\ number_sequences[i].length = 4
            /\ number_sequences[i].sequence = DigitsKeyed(keyed)

\* C5: in every state the gap that ends a sequence (word_gap) is longer than
\* the gap that separates digits (letter_gap).
C5_SequenceGapExceedsDigitGap ==
    word_gap > letter_gap

\* C6: a silent chunk decodes the pending code exactly when its silence
\* exceeds letter_gap: a longer silence decodes and clears a non-empty code
\* buffer, a silence of at most letter_gap leaves the code buffer and the
\* sequence buffer unchanged.
C6_DecodedExactlyPastDigitGap ==
    [][(silence' # <<>> /\ classified' = <<>>) =>
         /\ (silence'[1] > letter_gap /\ current_code # <<>>)
               => (decoded' = <<current_code>> /\ current_code' = <<>>)
         /\ (silence'[1] <= letter_gap)
               => /\ current_code' = current_code
                  /\ current_number_sequence' = current_number_sequence]_vars

\* C9: every archived record has a length field equal to the number of its
\* digits, digits among "0" .. "9", a length of 3 or 4 when it is not forced
\* and of at least 3 when it is forced.
C9_ArchivedRecordsWellFormed ==
    \A i \in 1 .. Len(number_sequences) :
        LET r == number_sequences[i] IN
        /\ r.length = Len(r.sequence)
        /\ \A k \in 1 .. Len(r.sequence) : r.sequence[k] \in Digits
        /\ ~r.forced => r.length \in {3, 4}
        /\ r.forced => r.length >= 3

C9_Witness ==
    /\ Len(number_sequences) = 1
    /\ number_sequences[1].sequence = <<"9", "0", "5">>
    /\ current_number_sequence = <<>>

\* C10: the tracker starts silent.  A chunk with energy > threshold while
\* silent turns the signal on and records the chunk's time as its start; a
\* chunk with energy <= threshold while the signal is on turns it off,
\* classifies exactly one duration, the chunk's time minus the recorded start,
\* and records the chunk's time as the end of the last signal; any other chunk
\* classifies nothing and changes neither the on/off state nor the start.
C10_ChunkStep(energy) ==
    /\ (energy > threshold /\ ~is_signal_on) =>
          /\ is_signal_on'
          /\ signal_start_time' = clock'
          /\ classified' = <<>>
    /\ (energy <= threshold /\ is_signal_on) =>
          /\ ~is_signal_on'
          /\ classified' = <<clock' - signal_start_time>>
          /\ last_signal_time' = clock'
    /\ ~(energy > threshold /\ ~is_signal_on) /\ ~(energy <= threshold /\ is_signal_on) =>
          /\ classified' = <<>>
          /\ is_signal_on' = is_signal_on
          /\ signal_start_time' = signal_start_time

C10_SignalStateTracker ==
    /\ ~is_signal_on
    /\ [][\A energy \in Energies :
            process_audio_chunk(energy, clock') => C10_ChunkStep(energy)]_vars

\* A signal that began at time 3 has ended at time 8, after an earlier one.
C10_Witness ==
    /\ ~is_signal_on
    /\ signal_start_time = 1 + dot_duration
    /\ clock = 1 + dot_duration + dash_duration
    /\ classified = <<dash_duration>>
    /\ last_signal_time = clock


\* C11: the gap logic runs on a chunk exactly when the signal is off after
\* the chunk's transition and a signal has ended before; it is given the
\* time since the end of the last signal; it never runs while the signal is
\* on, and never before the first signal has ended.
C11_GapStep ==
    /\ (silence' # <<>>) <=> (~is_signal_on' /\ last_signal_time' > 0)
    /\ silence' # <<>> => silence' = <<clock' - last_signal_time'>>
    /\ is_signal_on' => silence' = <<>>
    /\ (last_signal_time = 0 /\ ~(is_signal_on /\ ~is_signal_on')) => silence' = <<>>
    /\ last_signal_time' # last_signal_time =>
           is_signal_on /\ ~is_signal_on' /\ last_signal_time' = clock'

C11_GapLogicGuard == [][control' = <<>> => C11_GapStep]_vars

C11_Witness ==
    /\ ~is_signal_on
    /\ last_signal_time > 0
    /\ silence = <<clock - last_signal_time>>
    /\ clock - last_signal_time > word_gap


\* C12: adjust_threshold(delta) sets the threshold to threshold + delta when
\* that sum is above 0 and leaves it as it was otherwise; a quick-set key sets
\* it to the key's value; the threshold is above 0 in every state.
C12_ThresholdStaysPositive ==
    /\ threshold > 0
    /\ (control # <<>> /\ control[1] = "adjust") =>
           IF control[3] + control[2] > 0
           THEN threshold = control[3] + control[2]
           ELSE threshold = control[3]
    /\ (control # <<>> /\ control[1] = "set") =>
           threshold = control[2] /\ control[2] \in 1 .. 9

C12_Witness == control = <<"adjust", -1, 1>> /\ threshold = 1


\* C13: after reset_text() the code buffer, the sequence buffer and the
\* history of archived sequences are empty, and a reset_text() that follows
\* a reset_text() changes nothing.
C13_ResetClears ==
    [][control' = <<"reset">> =>
           /\ current_code' = <<>>
           /\ current_number_sequence' = <<>>
           /\ number_sequences' = <<>>
           /\ control = <<"reset">> => UNCHANGED vars]_vars

C13_Witness ==
    /\ control = <<"reset">>
    /\ number_sequences = <<>>
    /\ Len(keyed) = MaxResetKeyed
    /\ ~rested

\* C14: across a step that is not reset_text() the history before the step
\* is a prefix of the history after it, and at most one record longer.
C14_HistoryAppendOnly ==
    [][control' # <<"reset">> =>
           /\ Len(number_sequences') \in {Len(number_sequences), Len(number_sequences) + 1}
           /\ SubSeq(number_sequences', 1, Len(number_sequences)) = number_sequences]_vars

C14_Witness ==
    /\ Len(number_sequences) = 2
    /\ number_sequences[1].sequence # number_sequences[2].sequence
    /\ decoded # <<>>


\* C15: the confidence of a permutation of a source of length 3 or 4 is,
\* clamped to 0 .. 100: 50, plus 45 if it equals the source, plus 20 if it is
\* strictly ascending, else 15 if strictly descending, plus 10 if its digits
\* are all distinct, else 5 if one fewer than its length is distinct, minus
\* 10 for each digit by which its longest run of equal digits exceeds 2. For
\* the source 123, 123 scores 100 and 321 scores 75.
C15_Value(c) == CHOOSE n \in 0 .. 9 : DigitChars[n + 1] = c

C15_MaxRun(s) ==
    Max({r \in 1 .. Len(s) :
            \E i \in 1 .. Len(s) - r + 1 : \A k \in i .. i + r - 1 : s[k] = s[i]})

C15_Sum(p, source) ==
    LET distinct == Cardinality({p[i] : i \in 1 .. Len(p)}) IN
      50
    + (IF p = source THEN 45 ELSE 0)
    + (IF \A i, j \in 1 .. Len(p) : i < j => C15_Value(p[i]) < C15_Value(p[j]) THEN 20
       ELSE IF \A i, j \in 1 .. Len(p) : i < j => C15_Value(p[i]) > C15_Value(p[j]) THEN 15
       ELSE 0)
    + (IF distinct = Len(p) THEN 10 ELSE IF distinct = Len(p) - 1 THEN 5 ELSE 0)
    - (IF C15_MaxRun(p) > 2 THEN 10 * (C15_MaxRun(p) - 2) ELSE 0)

C15_Clamped(x) == IF x < 0 THEN 0 ELSE IF x > 100 THEN 100 ELSE x

C15_ConfidenceFormula ==
    Len(scored) = 3 =>
        LET permutation == scored[1]
            original    == scored[2]
            confidence  == scored[3]
        IN  /\ confidence = C15_Clamped(C15_Sum(permutation, original))
            /\ confidence \in 0 .. 100
            /\ original = <<"1", "2", "3">> =>
                   /\ permutation = <<"1", "2", "3">> => confidence = 100
                   /\ permutation = <<"3", "2", "1">> => confidence = 75

C15_Witness == scored = << <<"3", "2", "1">>, <<"1", "2", "3">>, 75 >>

\* C16: the permutations generated for a sequence of 3 or 4 digits are
\* exactly the distinct orderings of its digits, repeated digits counted:
\* each ordering once, nothing else, the sequence itself among them, and
\* fewer than n! of them when a digit repeats.
C16_Count(s, d) == Cardinality({i \in 1 .. Len(s) : s[i] = d})

C16_Orderings(source) ==
    LET digits == {source[i] : i \in 1 .. Len(source)} IN
    {q \in [1 .. Len(source) -> digits] :
        \A d \in digits : C16_Count(q, d) = C16_Count(source, d)}

RECURSIVE C16_Factorial(_)
C16_Factorial(n) == IF n = 0 THEN 1 ELSE n * C16_Factorial(n - 1)

C16_PermutationsExact ==
    (Len(permutations) = 2 /\ Len(permutations[1]) \in {3, 4}) =>
        LET source == permutations[1]
            made   == permutations[2]
        IN  /\ {made[i] : i \in 1 .. Len(made)} = C16_Orderings(source)
            /\ \A i, j \in 1 .. Len(made) : made[i] = made[j] => i = j
            /\ \E i \in 1 .. Len(made) : made[i] = source
            /\ Len(made) <= C16_Factorial(Len(source))
            /\ Len(made) < C16_Factorial(Len(source)) <=>
                   \E i, j \in 1 .. Len(source) : i # j /\ source[i] = source[j]

C16_Witness ==
    permutations = << <<"1", "1", "2">>,
                      << <<"1", "1", "2">>, <<"1", "2", "1">>, <<"2", "1", "1">> >> >>


\* C17: the candidates returned are in non-increasing order of confidence,
\* and those of one confidence are in the order they were generated in:
\* sequences in history order, the permutations of a sequence as generated.
C17_OfConfidence(list, c) ==
    LET Scores(x) == x.confidence = c IN SelectSeq(list, Scores)

C17_RankedStable ==
    control # <<>> =>
        LET made == all_candidates(slice_from(number_sequences, -window)) IN
        /\ \A i \in 1 .. Len(candidates) - 1 :
               candidates[i].confidence >= candidates[i + 1].confidence
        /\ \A c \in {made[i].confidence : i \in 1 .. Len(made)} :
               LET kept == C17_OfConfidence(candidates, c)
                   all  == C17_OfConfidence(made, c)
               IN  Len(kept) <= Len(all) /\ kept = SubSeq(all, 1, Len(kept))
        /\ \A i \in 1 .. Len(candidates) : \E j \in 1 .. Len(made) : candidates[i] = made[j]

C17_Witness ==
    /\ control = <<"analyze">>
    /\ \E i \in 1 .. Len(candidates) - 1 :
          /\ candidates[i].confidence = candidates[i + 1].confidence
          /\ candidates[i].original # candidates[i + 1].original
    /\ \E i \in 1 .. Len(candidates) - 1 :
          candidates[i].confidence > candidates[i + 1].confidence

\* C18: the candidates save_result writes are every distinct permutation of
\* every sequence among the last ExportWindow of the history.
C18_ExportIsFull ==
    control = <<"save">> =>
        \A i \in 1 .. Len(number_sequences) :
            i > Len(number_sequences) - ExportWindow =>
                \A q \in C16_Orderings(number_sequences[i].sequence) :
                    \E k \in 1 .. Len(candidates) :
                        /\ candidates[k].password = q
                        /\ candidates[k].original = number_sequences[i].sequence

\* C19: every candidate analyze_recent_sequences(max_sequences) returns has
\* as its source one of the last max_sequences archived sequences, and it
\* returns none for an empty history or for max_sequences = 0.
C19_SourcesInWindow ==
    control = <<"analyze">> =>
        /\ \A k \in 1 .. Len(candidates) :
               \E i \in 1 .. Len(number_sequences) :
                   /\ i > Len(number_sequences) - window
                   /\ candidates[k].original = number_sequences[i].sequence
        /\ (number_sequences = <<>> \/ window = 0) => candidates = <<>>


\* C20: morse_dict maps exactly ten codes, each of five symbols out of dot
\* and dash, one to one onto the digits 0 .. 9; no step changes it; and a
\* code buffer of dot, dash, dash, dash, dash decodes to the digit 1.
C20_Bijection ==
    /\ Cardinality(DOMAIN morse_dict) = 10
    /\ \A c \in DOMAIN morse_dict :
           c \in [1 .. 5 -> {".", "-"}] /\ morse_dict[c] \in Digits
    /\ \A d \in Digits : \E c \in DOMAIN morse_dict : morse_dict[c] = d
    /\ \A c, e \in DOMAIN morse_dict : morse_dict[c] = morse_dict[e] => c = e

C20_DecodesOne ==
    decoded' = <<One>> =>
        LET digits == Append(current_number_sequence, "1") IN
        \/ current_number_sequence' = digits /\ number_sequences' = number_sequences
        \/ /\ current_number_sequence' = <<>>
           /\ Len(number_sequences') = Len(number_sequences) + 1
           /\ number_sequences'[Len(number_sequences')].sequence = digits

C20_MorseDigitMap ==
    /\ []C20_Bijection
    /\ [][morse_dict' = morse_dict /\ C20_DecodesOne]_vars

C20_Witness ==
    /\ decoded = <<One>>
    /\ current_number_sequence # <<>>
    /\ current_number_sequence[Len(current_number_sequence)] = "1"
    /\ morse_dict[One] = "1"


\* C21: the filter carries its history across calls: the outputs for a chunk
\* and then for the next chunk are the output for the two chunks in one.
C21_FilterContinuity ==
    Len(filtered) = 2 =>
        filtered[1] \o filtered[2] = lfilter(filter_b, filter_a, audio[1] \o audio[2])


\* C22: whatever start() and stop() calls one thread has made, at most one
\* worker thread is alive, so at most one call of process_audio_chunk is in
\* progress, and the thread AudioStream.thread names is the one alive.
C22_Alive == {t \in DOMAIN workers : workers[t] # "done"}

C22_SingleConsumer ==
    /\ Cardinality(C22_Alive) <= 1
    /\ Cardinality({t \in DOMAIN workers : workers[t] = "callback"}) <= 1
    /\ \A t \in C22_Alive : thread = <<t>>

C22_Witness ==
    /\ Len(workers) = 2
    /\ workers[1] = "done"
    /\ workers[2] = "callback"
    /\ thread = <<2>>
    /\ current_number_sequence # <<>>

\* C24: stop() appends no record and changes neither buffer, whatever they
\* hold; the history changes in a chunk's callback only; and once stop()
\* has returned no worker thread is left to run a callback.
C24_StopStep ==
    /\ control' \in {<<"stop">>, <<"stopped">>} =>
           UNCHANGED <<number_sequences, current_code, current_number_sequence>>
    /\ number_sequences' # number_sequences =>
           /\ control' = <<>>
           /\ \E t \in DOMAIN workers : workers[t] = "callback" /\ workers'[t] = "test"

C24_StopSafe ==
    /\ [][C24_StopStep]_vars
    /\ []((caller = "idle" /\ ~is_streaming) => C22_Alive = {})

C24_Witness ==
    /\ control = <<"stopped">>
    /\ caller = "idle"
    /\ ~is_streaming
    /\ current_code # <<>>
    /\ current_number_sequence # <<>>
    /\ workers = <<"done">>

\* C29: once stop() has cleared is_streaming and waits in join(), the worker
\* thread ends and stop() returns: the stream is not streaming, names no
\* thread, has no worker alive, and its caller is free to call start() again.
C29_Stopped ==
    /\ caller = "idle"
    /\ ~is_streaming
    /\ thread = <<>>
    /\ C22_Alive = {}

C29_StopTerminates == (caller = "joining") ~> C29_Stopped

C29_Witness ==
    /\ C29_Stopped
    /\ control = <<"stopped">>
    /\ Len(workers) = 1
    /\ frames_waiting


\* C23: whatever way the statements of reset_text fall between those of the
\* decode and archive step, no archived record is torn: none has an empty
\* digit string or a length other than the number of its digits.
C23_NoTornRecord ==
    \A i \in 1 .. Len(number_sequences) :
        /\ number_sequences[i].sequence # <<>>
        /\ number_sequences[i].length = Len(number_sequences[i].sequence)


\* C25: with the expected lengths 3 and 4, the sequence buffer holds at most
\* 2 digits after every chunk; every archived record has exactly 3 digits
\* and is not forced (force_complete_sequence appends none); and the buffer
\* is emptied only by archiving it with the digit just decoded (the branch
\* that discards an over-long buffer is never taken).
C25_Archived(before, after, buffer) ==
    /\ Len(after) = Len(before) + 1
    /\ SubSeq(after, 1, Len(before)) = before
    /\ \E d \in Digits : after[Len(after)].sequence = Append(buffer, d)

C28_ResetKeepsTracker ==
    [][/\ control' = <<"reset">> =>
             /\ current_code' = <<>>
             /\ UNCHANGED <<threshold, params, is_signal_on, signal_start_time,
                            last_signal_time, total_signals>>
       /\ (control = <<"reset">> /\ is_signal_on /\ ~is_signal_on') =>
             /\ Len(current_code') = 1
             /\ current_code'[1] \in {".", "-"}
             /\ total_signals' = total_signals + 1
             /\ last_signal_time' = clock']_vars

C28_Witness ==
    /\ control = <<"reset">>
    /\ is_signal_on
    /\ total_signals > 0
    /\ signal_start_time > last_signal_time
    /\ current_code = <<>>


\* C27: of a sequence of 3 digits the candidate equal to it has confidence at
\* least 85 and every other candidate at most 80; so in the candidates
\* returned for sequences of 3 digits no candidate that differs from its
\* source precedes one that equals it, and when at most ReturnedCandidates
\* sequences are analysed the candidate equal to each of them is returned.
C27_Exact(c) == c.password = c.original

C27_ExactFirst ==
    control # <<>> =>
        LET recent == slice_from(number_sequences, -window) IN
        /\ \A original \in Passwords(3) :
               /\ calculate_confidence(original, original) >= 85
               /\ \A p \in perm_strings(original) \ {original} :
                      calculate_confidence(p, original) <= 80
        /\ \A i \in 1 .. Len(candidates) : \A j \in i + 1 .. Len(candidates) :
               C27_Exact(candidates[j]) => C27_Exact(candidates[i])
        /\ Len(recent) <= ReturnedCandidates =>
               /\ Len(SelectSeq(candidates, C27_Exact)) = Len(recent)
               /\ \A k \in 1 .. Len(recent) :
                      \E i \in 1 .. Len(candidates) :
                          /\ C27_Exact(candidates[i])
                          /\ candidates[i].original = recent[k].sequence

C27_Witness ==
    /\ control = <<"analyze">>
    /\ window = ReturnedCandidates
    /\ Len(number_sequences) = ReturnedCandidates
    /\ Len(candidates) = ReturnedCandidates
    /\ Len(all_candidates(number_sequences)) > ReturnedCandidates
    /\ \E i \in 1 .. Len(candidates) : candidates[i].confidence = 85


\* C26: while the chunks delivered after a pulse has ended stay at or below
\* the threshold, a code buffer that is not empty is eventually decoded and
\* emptied; the silent chunk that empties it adds the digit of a code of the
\* table to the sequence buffer once (archiving the buffer when that completes
\* it) and nothing for any other code; and every other silent chunk changes
\* neither the sequence buffer nor the history.
C26_Decoded(code) ==
    LET digits == Append(current_number_sequence, morse_dict[code]) IN
    \/ /\ current_number_sequence' = digits
       /\ number_sequences' = number_sequences
    \/ /\ current_number_sequence' = <<>>
       /\ number_sequences' =
              Append(number_sequences, sequence_info(digits, Len(digits), FALSE))

C26_SilentStep ==
    (~is_signal_on /\ ~is_signal_on') =>
        IF current_code # <<>> /\ current_code' = <<>>
          THEN /\ clock' - last_signal_time > word_gap
               /\ IF current_code \in DOMAIN morse_dict
                    THEN C26_Decoded(current_code)
                    ELSE UNCHANGED <<current_number_sequence, number_sequences>>
        ELSE UNCHANGED <<current_code, current_number_sequence, number_sequences>>

C26_SilenceDecodes ==
    /\ (~is_signal_on /\ keying = <<>> /\ current_code # <<>>)
           ~> (current_code = <<>> \/ is_signal_on)
    /\ [][C26_SilentStep]_vars

C26_Witness ==
    /\ ~is_signal_on /\ keying = <<>>
    /\ Len(keyed) = keyer.limit
    /\ current_code = <<>>
    /\ decoded # <<>> /\ decoded[Len(decoded)] \in DOMAIN morse_dict
    /\ number_sequences # <<>>
    /\ clock - last_signal_time > word_gap

====
